---- MODULE Spec2Model ----
(***************************************************************************)
(* casbab: conversion of compound words between camel, pascal, snake,      *)
(* kebab and space separated writings (src/src/lib.rs), and the command    *)
(* line front end that dispatches on a dialect name (src/src/bin/casbab.rs)*)
(*                                                                         *)
(* A string is a sequence of scalar values, each written as a one          *)
(* character TLA+ string.  Offsets are 0-based as in the source: the       *)
(* scalar value at offset i of s is s[i + 1].  Every scalar value of the   *)
(* modelled alphabet is one byte wide, so byte offsets and counts agree.   *)
(***************************************************************************)
EXTENDS Integers, Sequences, FiniteSets, TLC

VARIABLES s, fn, r, calls, args, tty, stdin, pc, func, phrases, stdout, error

vars == <<s, fn, r, calls, args, tty, stdin, pc, func, phrases, stdout, error>>

libvars == <<s, fn, r, calls>>

clivars == <<args, tty, stdin, pc, func, phrases, stdout, error>>

(***************************************************************************)
(* Bounds.                                                                 *)
(***************************************************************************)
MaxLen == 4

MaxCalls == 2

MaxPhrases == 2

(***************************************************************************)
(* Scalar values: char::is_uppercase, char::to_uppercase / to_lowercase    *)
(* restricted to the Latin letters, a case-less digit and the delimiters.  *)
(***************************************************************************)
LowerLetters == <<"a", "b", "c", "e", "k", "l", "m", "n", "s", "x">>

UpperLetters == <<"A", "B", "C", "E", "K", "L", "M", "N", "S", "X">>

Range(q) == {q[i] : i \in DOMAIN q}

is_uppercase(c) == c \in Range(UpperLetters)

is_lowercase(c) == c \in Range(LowerLetters)

char_to_uppercase(c) ==
    IF is_lowercase(c)
    THEN UpperLetters[CHOOSE i \in DOMAIN LowerLetters : LowerLetters[i] = c]
    ELSE c

char_to_lowercase(c) ==
    IF is_uppercase(c)
    THEN LowerLetters[CHOOSE i \in DOMAIN UpperLetters : UpperLetters[i] = c]
    ELSE c

\* a mutation: the underscore is not tested
is_delimiter_no_underscore(c) == c = "-" \/ c = " "

\* a mutation: the hyphen is not tested
is_delimiter_no_hyphen(c) == c = "_" \/ c = " "

\* the test of lib.rs line 227
is_delimiter(c) == c = "-" \/ c = "_" \/ c = " "

(***************************************************************************)
(* Slices.  &s[a..b] panics when a > b or b > s.len(); the panic is        *)
(* modelled by a poisoned string that no conversion result can equal.      *)
(***************************************************************************)
Panic == <<"!panic">>

Slice(str, a, b) ==
    IF a <= b /\ b <= Len(str) THEN SubSeq(str, a + 1, b) ELSE Panic

(***************************************************************************)
(* first_word: the for loop of lines 226-259 from offset i on, with the    *)
(* loop's local variables, and the two returns after the loop.             *)
(***************************************************************************)
\* a mutation: the split falls after the last uppercase letter of the run
acronym_boundary_after(str, start, prev_upper_location) ==
    [w |-> Slice(str, start, prev_upper_location + 1),
     rest |-> Slice(str, prev_upper_location + 1, Len(str))]

\* line 252: the word ends before the last uppercase letter seen
acronym_boundary(str, start, prev_upper_location) ==
    [w |-> Slice(str, start, prev_upper_location),
     rest |-> Slice(str, prev_upper_location, Len(str))]

\* a mutation: the gate is off by one
acronym_gate_off_by_one(prev_upper, prev_upper_location) ==
    prev_upper /\ prev_upper_location > 1

\* line 250: prev_upper_location is the offset of the last uppercase letter seen
acronym_gate(prev_upper, prev_upper_location) ==
    prev_upper /\ prev_upper_location > 0

RECURSIVE first_word_scan(_, _, _, _, _, _)
first_word_scan(str, i, start, prev_lower, prev_upper, prev_upper_location) ==
    IF i >= Len(str)
    THEN IF start # Len(str)
         THEN [w |-> Slice(str, start, Len(str)), rest |-> <<>>]
         ELSE [w |-> <<>>, rest |-> <<>>]
    ELSE LET c == str[i + 1] IN
         IF is_delimiter(c)
         THEN IF start # i
              THEN [w |-> Slice(str, start, i), rest |-> Slice(str, i, Len(str))]
              ELSE first_word_scan(str, i + 1, i + 1, FALSE, FALSE, 0)
         ELSE IF is_uppercase(c)
         THEN IF prev_lower
              THEN IF start # i
                   THEN [w |-> Slice(str, start, i), rest |-> Slice(str, i, Len(str))]
                   ELSE first_word_scan(str, i + 1, i, FALSE, TRUE, i)
              ELSE first_word_scan(str, i + 1, start, prev_lower, TRUE, i)
         ELSE IF acronym_gate(prev_upper, prev_upper_location)
              THEN IF start # prev_upper_location
                   THEN acronym_boundary(str, start, prev_upper_location)
                   ELSE first_word_scan(str, i + 1, prev_upper_location, TRUE, FALSE, 0)
              ELSE first_word_scan(str, i + 1, start, TRUE, prev_upper, prev_upper_location)

first_word(str) == first_word_scan(str, 0, 0, FALSE, FALSE, 0)

(***************************************************************************)
(* Word transforms.                                                        *)
(***************************************************************************)
\* str::to_lowercase and str::to_uppercase of the standard library
str_to_lowercase(w) == [i \in 1..Len(w) |-> char_to_lowercase(w[i])]

str_to_uppercase(w) == [i \in 1..Len(w) |-> char_to_uppercase(w[i])]

\* a mutation: the lowercase transform calls the uppercase mapping
to_lowercase_as_upper(w) == str_to_uppercase(w)

to_lowercase(w) == str_to_lowercase(w)

to_uppercase(w) == str_to_uppercase(w)

to_titlecase(w) ==
    IF w = <<>>
    THEN w
    ELSE <<char_to_uppercase(Head(w))>> \o str_to_lowercase(Tail(w))

\* a transform passed as fn(&str) -> String is named by the function passed
transform_call(transform, w) ==
    CASE transform = "to_lowercase" -> to_lowercase(w)
      [] transform = "to_uppercase" -> to_uppercase(w)
      [] transform = "to_titlecase" -> to_titlecase(w)

(***************************************************************************)
(* head_tail_count: both loops leave the count at 0 when no scalar value   *)
(* differs from sub.                                                       *)
(***************************************************************************)
\* a mutation: the second loop runs forwards like the first
head_tail_count_forward(str, sub) ==
    LET differs == {i \in 0..(Len(str) - 1) : str[i + 1] # sub}
        min(S) == CHOOSE m \in S : \A n \in S : m <= n
    IN  [head |-> IF differs = {} THEN 0 ELSE min(differs),
         tail |-> IF differs = {} THEN 0 ELSE min(differs)]

\* a mutation: a string made of sub only counts as one whole run at each end
head_tail_count_whole_run(str, sub) ==
    LET differs == {i \in 0..(Len(str) - 1) : str[i + 1] # sub}
        rdiffers == {i \in 0..(Len(str) - 1) : str[Len(str) - i] # sub}
        min(S) == CHOOSE m \in S : \A n \in S : m <= n
    IN  [head |-> IF differs = {} THEN Len(str) ELSE min(differs),
         tail |-> IF rdiffers = {} THEN Len(str) ELSE min(rdiffers)]

head_tail_count(str, sub) ==
    LET differs == {i \in 0..(Len(str) - 1) : str[i + 1] # sub}
        rdiffers == {i \in 0..(Len(str) - 1) : str[Len(str) - i] # sub}
        min(S) == CHOOSE m \in S : \A n \in S : m <= n
    IN  [head |-> IF differs = {} THEN 0 ELSE min(differs),
         tail |-> IF rdiffers = {} THEN 0 ELSE min(rdiffers)]

repeat_char(c, n) == [i \in 1..n |-> c]

(***************************************************************************)
(* casbab, casbab_separate, casbab_wrap: the first call of first_word and  *)
(* then the loop, with its two breaks.                                     *)
(***************************************************************************)
RECURSIVE casbab_loop(_, _, _)
casbab_loop(str, out, transform) ==
    LET fw == first_word(str) IN
    IF fw.w = <<>>
    THEN out
    ELSE LET out2 == out \o transform_call(transform, fw.w) IN
         IF fw.rest = <<>> THEN out2 ELSE casbab_loop(fw.rest, out2, transform)

\* a mutation: the two transforms are taken in the wrong order
casbab_swapped(str, transform, transform_first_word) ==
    LET fw == first_word(str) IN
    casbab_loop(fw.rest, transform_call(transform, fw.w), transform_first_word)

casbab(str, transform, transform_first_word) ==
    LET fw == first_word(str) IN
    casbab_loop(fw.rest, transform_call(transform_first_word, fw.w), transform)

RECURSIVE casbab_separate_loop(_, _, _, _)
casbab_separate_loop(str, out, separator, transform) ==
    LET fw == first_word(str) IN
    IF fw.w = <<>>
    THEN out
    ELSE LET out2 == (out \o <<separator>>) \o transform_call(transform, fw.w) IN
         IF fw.rest = <<>>
         THEN out2
         ELSE casbab_separate_loop(fw.rest, out2, separator, transform)

\* a mutation: the separator is written before the first word as well
casbab_separate_sep_first(str, separator, transform) ==
    LET fw == first_word(str) IN
    casbab_separate_loop(fw.rest, <<separator>> \o transform_call(transform, fw.w),
                         separator, transform)

casbab_separate(str, separator, transform) ==
    LET fw == first_word(str) IN
    casbab_separate_loop(fw.rest, transform_call(transform, fw.w), separator, transform)

RECURSIVE casbab_wrap_loop(_, _, _, _)
casbab_wrap_loop(str, out, separator, transform) ==
    LET fw == first_word(str) IN
    IF fw.w = <<>>
    THEN out
    ELSE LET out2 == (out \o <<separator>>) \o transform_call(transform, fw.w) IN
         IF fw.rest = <<>>
         THEN out2
         ELSE casbab_wrap_loop(fw.rest, out2, separator, transform)

\* a mutation: the separator is written before the first word as well
casbab_wrap_sep_first(str, separator, transform) ==
    LET ht == head_tail_count(str, separator)
        fw == first_word(str)
        body == casbab_wrap_loop(fw.rest,
                    (repeat_char(separator, ht.head) \o <<separator>>)
                        \o transform_call(transform, fw.w),
                    separator, transform)
    IN  body \o repeat_char(separator, ht.tail)

casbab_wrap(str, separator, transform) ==
    LET ht == head_tail_count(str, separator)
        fw == first_word(str)
        body == casbab_wrap_loop(fw.rest,
                    repeat_char(separator, ht.head) \o transform_call(transform, fw.w),
                    separator, transform)
    IN  body \o repeat_char(separator, ht.tail)

(***************************************************************************)
(* The eleven public functions.                                            *)
(***************************************************************************)
camel(str) == casbab(str, "to_titlecase", "to_lowercase")

pascal(str) == casbab(str, "to_titlecase", "to_titlecase")

\* a mutation: snake is given the hyphen of kebab
snake_with_hyphen(str) == casbab_wrap(str, "-", "to_lowercase")

snake(str) == casbab_wrap(str, "_", "to_lowercase")

camel_snake(str) == casbab_wrap(str, "_", "to_titlecase")

screaming_snake(str) == casbab_wrap(str, "_", "to_uppercase")

kebab(str) == casbab_wrap(str, "-", "to_lowercase")

camel_kebab(str) == casbab_wrap(str, "-", "to_titlecase")

screaming_kebab(str) == casbab_wrap(str, "-", "to_uppercase")

lower(str) == casbab_separate(str, " ", "to_lowercase")

title(str) == casbab_separate(str, " ", "to_titlecase")

screaming(str) == casbab_separate(str, " ", "to_uppercase")

\* a function value (casbab::camel, ...) is named by the function
call(f, str) ==
    CASE f = "camel" -> camel(str)
      [] f = "pascal" -> pascal(str)
      [] f = "snake" -> snake(str)
      [] f = "camel_snake" -> camel_snake(str)
      [] f = "screaming_snake" -> screaming_snake(str)
      [] f = "kebab" -> kebab(str)
      [] f = "camel_kebab" -> camel_kebab(str)
      [] f = "screaming_kebab" -> screaming_kebab(str)
      [] f = "lower" -> lower(str)
      [] f = "title" -> title(str)
      [] f = "screaming" -> screaming(str)

(***************************************************************************)
(* Inputs: every string of at most MaxLen scalar values over a lowercase   *)
(* letter, an uppercase letter, a case-less digit and the three            *)
(* delimiters, and phrases of tests/tests.rs.                              *)
(***************************************************************************)
Alphabet == {"a", "A", "1", "_", "-", " "}

BoundedStrings == UNION {[1..n -> Alphabet] : n \in 0..MaxLen}

\* "     "
ExSpaces ==
    <<" ", " ", " ", " ", " ">>

\* "xCamelXXSnakeXXXKebab"
ExAcronyms ==
    <<"x", "C", "a", "m", "e", "l", "X", "X", "S", "n", "a", "k", "e", "X", "X", "X", "K", "e", "b", "a", "b">>

\* "CAMELSnakeKebab"
ExLeadingCaps ==
    <<"C", "A", "M", "E", "L", "S", "n", "a", "k", "e", "K", "e", "b", "a", "b">>

\* "camel_snake_kebab"
ExSnake ==
    <<"c", "a", "m", "e", "l", "_", "s", "n", "a", "k", "e", "_", "k", "e", "b", "a", "b">>

\* "__camel_snake_kebab__"
ExWrappedSnake ==
    <<"_", "_", "c", "a", "m", "e", "l", "_", "s", "n", "a", "k", "e", "_", "k", "e", "b", "a", "b", "_", "_">>

\* "-camel-snake-kebab----"
ExWrappedKebab ==
    <<"-", "c", "a", "m", "e", "l", "-", "s", "n", "a", "k", "e", "-", "k", "e", "b", "a", "b", "-", "-", "-", "-">>

\* "__ Camel-snakeKEBAB__"
ExMixed ==
    <<"_", "_", " ", "C", "a", "m", "e", "l", "-", "s", "n", "a", "k", "e", "K", "E", "B", "A", "B", "_", "_">>

Examples ==
    {ExSpaces, ExAcronyms, ExLeadingCaps, ExSnake, ExWrappedSnake, ExWrappedKebab,
     ExMixed}

Inputs == BoundedStrings \cup Examples

Functions ==
    {"camel", "pascal", "snake", "camel_snake", "screaming_snake", "kebab",
     "camel_kebab", "screaming_kebab", "lower", "title", "screaming"}

(***************************************************************************)
(* A client of the library: it converts a phrase, and may convert the      *)
(* result again.  s is the argument of the latest call, fn the function    *)
(* called and r the string returned.                                       *)
(***************************************************************************)
Init ==
    /\ s \in Inputs
    /\ fn = "none"
    /\ r = <<>>
    /\ calls = 0
    /\ args = [present |-> FALSE, dialect |-> "", phrases |-> <<>>]
    /\ tty = FALSE
    /\ stdin = <<>>
    /\ pc = "library"
    /\ func = "none"
    /\ phrases = <<>>
    /\ stdout = <<>>
    /\ error = "none"

Convert(f) ==
    /\ pc = "library"
    /\ calls < MaxCalls
    /\ s' = IF calls = 0 THEN s ELSE r
    /\ fn' = f
    /\ r' = call(f, s')
    /\ calls' = calls + 1
    /\ UNCHANGED clivars

Camel == Convert("camel")

Pascal == Convert("pascal")

Snake == Convert("snake")

CamelSnake == Convert("camel_snake")

ScreamingSnake == Convert("screaming_snake")

Kebab == Convert("kebab")

CamelKebab == Convert("camel_kebab")

ScreamingKebab == Convert("screaming_kebab")

Lower == Convert("lower")

Title == Convert("title")

Screaming == Convert("screaming")

Next ==
    \/ Camel
    \/ Pascal
    \/ Snake
    \/ CamelSnake
    \/ ScreamingSnake
    \/ Kebab
    \/ CamelKebab
    \/ ScreamingKebab
    \/ Lower
    \/ Title
    \/ Screaming

Spec == Init /\ [][Next]_vars

(***************************************************************************)
(* The command line program, src/src/bin/casbab.rs.  args is the command   *)
(* line after the program name (present is FALSE when it is empty), tty    *)
(* says whether the standard input is a terminal and stdin holds its       *)
(* lines; pc is the position in main, func the function the match selects, *)
(* phrases the phrases still to print and stdout the lines printed.        *)
(***************************************************************************)
\* the names the text of the dialect argument lists, lines 17-27
HelpDialects ==
    {"camel", "pascal", "snake", "camel-snake", "screaming-snake", "kebab",
     "camel-kebab", "screaming-kebab", "lower", "title", "screaming"}

\* the match of lines 45-61; "none" stands for the arm that exits
match_dialect(dialect) ==
    CASE dialect = "camel" -> "camel"
      [] dialect = "pascal" -> "pascal"
      [] dialect = "snake" -> "snake"
      [] dialect = "camel-snake" -> "camel_snake"
      [] dialect = "screaming-snake" -> "screaming_snake"
      [] dialect = "kebab" -> "kebab"
      [] dialect = "camel-kebab" -> "camel_kebab"
      [] dialect = "screaming-kebab" -> "screaming_kebab"
      [] dialect = "lower" -> "lower"
      [] dialect = "title " -> "title"
      [] dialect = "screaming" -> "screaming"
      [] OTHER -> "none"

DialectArgs == HelpDialects \cup {"title ", "Camel", "camel_snake"}

CliPhrases == {<<"a", "A", "A", "a">>, <<"_", "a", "-", "A", "1", " ">>, ExSnake}

PhraseLists == UNION {[1..n -> CliPhrases] : n \in 0..MaxPhrases}

NoArgs == [present |-> FALSE, dialect |-> "", phrases |-> <<>>]

CliInit ==
    /\ args \in {NoArgs} \cup [present : {TRUE}, dialect : DialectArgs, phrases : PhraseLists]
    /\ tty \in BOOLEAN
    /\ stdin \in PhraseLists
    /\ pc = "get_matches"
    /\ func = "none"
    /\ phrases = <<>>
    /\ stdout = <<>>
    /\ error = "none"
    /\ s = <<>>
    /\ fn = "none"
    /\ r = <<>>
    /\ calls = 0

\* arg_required_else_help: no argument at all prints the help and exits
HelpExit ==
    /\ pc = "get_matches"
    /\ ~args.present
    /\ pc' = "exit"
    /\ error' = "help"
    /\ UNCHANGED <<libvars, args, tty, stdin, func, phrases, stdout>>

GetMatches ==
    /\ pc = "get_matches"
    /\ args.present
    /\ pc' = "match"
    /\ UNCHANGED <<libvars, args, tty, stdin, func, phrases, stdout, error>>

MatchDialect ==
    /\ pc = "match"
    /\ match_dialect(args.dialect) # "none"
    /\ func' = match_dialect(args.dialect)
    /\ pc' = "phrases"
    /\ UNCHANGED <<libvars, args, tty, stdin, phrases, stdout, error>>

InvalidDialect ==
    /\ pc = "match"
    /\ match_dialect(args.dialect) = "none"
    /\ error' = "Invalid dialect"
    /\ pc' = "exit"
    /\ UNCHANGED <<libvars, args, tty, stdin, func, phrases, stdout>>

PhrasesFromArgs ==
    /\ pc = "phrases"
    /\ args.phrases # <<>>
    /\ phrases' = args.phrases
    /\ pc' = "print"
    /\ UNCHANGED <<libvars, args, tty, stdin, func, stdout, error>>

MissingPhrases ==
    /\ pc = "phrases"
    /\ args.phrases = <<>>
    /\ tty
    /\ error' = "Missing phases either from arguments or stdin"
    /\ pc' = "exit"
    /\ UNCHANGED <<libvars, args, tty, stdin, func, phrases, stdout>>

PhrasesFromStdin ==
    /\ pc = "phrases"
    /\ args.phrases = <<>>
    /\ ~tty
    /\ phrases' = stdin
    /\ pc' = "print"
    /\ UNCHANGED <<libvars, args, tty, stdin, func, stdout, error>>

PrintPhrase ==
    /\ pc = "print"
    /\ phrases # <<>>
    /\ s' = Head(phrases)
    /\ fn' = func
    /\ r' = call(func, s')
    /\ calls' = calls + 1
    /\ stdout' = Append(stdout, r')
    /\ phrases' = Tail(phrases)
    /\ UNCHANGED <<args, tty, stdin, pc, func, error>>

Return ==
    /\ pc = "print"
    /\ phrases = <<>>
    /\ pc' = "exit"
    /\ UNCHANGED <<libvars, args, tty, stdin, func, phrases, stdout, error>>

CliNext ==
    \/ HelpExit
    \/ GetMatches
    \/ MatchDialect
    \/ InvalidDialect
    \/ PhrasesFromArgs
    \/ MissingPhrases
    \/ PhrasesFromStdin
    \/ PrintPhrase
    \/ Return

CliSpec == CliInit /\ [][CliNext]_vars

(***************************************************************************)
(* Reference definitions the claims are stated with.                       *)
(***************************************************************************)
Delimiters == {"-", "_", " "}

UpperSet == Range(UpperLetters)

LowerSet == Range(LowerLetters)

\* the words the scanner finds: first_word on the input, then on every remainder
RECURSIVE ScannerWords(_)
ScannerWords(x) ==
    LET fw == first_word(x) IN
    IF fw.w = <<>> THEN <<>> ELSE <<fw.w>> \o ScannerWords(fw.rest)

\* the same words as spans [from, to) of 0-based offsets into the input
RECURSIVE ScannerSpans(_, _)
ScannerSpans(x, base) ==
    LET fw == first_word(x)
        to == Len(x) - Len(fw.rest)
    IN  IF fw.w = <<>>
        THEN <<>>
        ELSE <<[from |-> base + to - Len(fw.w), to |-> base + to]>>
             \o ScannerSpans(fw.rest, base + to)

HasWord(x) == ScannerWords(x) # <<>>

Occurs(c, x) == \E i \in 1..Len(x) : x[i] = c

\* length of the maximal run of c at the very start, and at the very end
LeadingRun(x, c) ==
    CHOOSE n \in 0..Len(x) :
        /\ \A i \in 1..n : x[i] = c
        /\ n = Len(x) \/ x[n + 1] # c

TrailingRun(x, c) ==
    CHOOSE n \in 0..Len(x) :
        /\ \A i \in 1..n : x[Len(x) + 1 - i] = c
        /\ n = Len(x) \/ x[Len(x) - n] # c

Lowercased(w) ==
    [i \in 1..Len(w) |->
        IF w[i] \in UpperSet
        THEN LowerLetters[CHOOSE k \in DOMAIN UpperLetters : UpperLetters[k] = w[i]]
        ELSE w[i]]

Uppercased(w) ==
    [i \in 1..Len(w) |->
        IF w[i] \in LowerSet
        THEN UpperLetters[CHOOSE k \in DOMAIN LowerLetters : LowerLetters[k] = w[i]]
        ELSE w[i]]

Titlecased(w) ==
    IF w = <<>> THEN <<>> ELSE Uppercased(<<w[1]>>) \o Lowercased(Tail(w))

Cased(kind, w) ==
    CASE kind = "lower" -> Lowercased(w)
      [] kind = "upper" -> Uppercased(w)
      [] kind = "title" -> Titlecased(w)

\* the words ws, each in the given case, with sep (a string) between them
RECURSIVE Joined(_, _, _)
Joined(ws, kind, sep) ==
    IF ws = <<>>
    THEN <<>>
    ELSE IF Len(ws) = 1
         THEN Cased(kind, ws[1])
         ELSE (Cased(kind, ws[1]) \o sep) \o Joined(Tail(ws), kind, sep)

SnakeFamily == {"snake", "camel_snake", "screaming_snake"}

KebabFamily == {"kebab", "camel_kebab", "screaming_kebab"}

SpaceFamily == {"lower", "title", "screaming"}

WrapFamily == SnakeFamily \cup KebabFamily

SeparatorOf(f) ==
    IF f \in SnakeFamily THEN "_" ELSE IF f \in KebabFamily THEN "-" ELSE " "

CaseOf(f) ==
    CASE f \in {"snake", "kebab", "lower"} -> "lower"
      [] f \in {"camel_snake", "camel_kebab", "title"} -> "title"
      [] f \in {"screaming_snake", "screaming_kebab", "screaming"} -> "upper"

Called == fn # "none"

(***************************************************************************)
(* C1: for an input with at least one word, a snake or kebab family        *)
(* function returns h separators, the scanner's words in order, each in    *)
(* the family's case, joined by one separator, then t separators, h and t  *)
(* being the lengths of the runs of that separator at the start and at the *)
(* end of the raw input.                                                   *)
(***************************************************************************)
C1_WrapLayout ==
    (Called /\ fn \in WrapFamily /\ HasWord(s)) =>
        r = (repeat_char(SeparatorOf(fn), LeadingRun(s, SeparatorOf(fn)))
             \o Joined(ScannerWords(s), CaseOf(fn), <<SeparatorOf(fn)>>))
            \o repeat_char(SeparatorOf(fn), TrailingRun(s, SeparatorOf(fn)))

C1_Witness ==
    /\ fn = "camel_snake"
    /\ Len(ScannerWords(s)) >= 2
    /\ LeadingRun(s, "_") = 2
    /\ TrailingRun(s, "_") = 2
    /\ Occurs("-", s)
    /\ Len(r) > 4

(***************************************************************************)
(* C2: camel returns the scanner's words in order with nothing between     *)
(* them, the first lowercased and the later ones titlecased; pascal the    *)
(* same with the first titlecased too; no delimiter of the input, leading  *)
(* or trailing, is in the result.                                          *)
(***************************************************************************)
C2_CamelPascal ==
    LET ws == ScannerWords(s) IN
    /\ (Called /\ fn = "camel") =>
          r = IF ws = <<>>
              THEN <<>>
              ELSE Lowercased(ws[1]) \o Joined(Tail(ws), "title", <<>>)
    /\ (Called /\ fn = "pascal") => r = Joined(ws, "title", <<>>)
    /\ (Called /\ fn \in {"camel", "pascal"}) =>
          \A i \in 1..Len(r) : r[i] \notin Delimiters

C2_Witness ==
    /\ fn = "camel"
    /\ Len(ScannerWords(s)) >= 3
    /\ s[1] \in Delimiters
    /\ s[Len(s)] \in Delimiters
    /\ r # <<>>
    /\ r[1] \in LowerSet

(***************************************************************************)
(* C3: delimiters are not carried across families: no '-' and no ' ' in a  *)
(* snake family result, no '_' and no ' ' in a kebab family result; a      *)
(* result of lower, title or screaming has no '_' and no '-', neither      *)
(* begins nor ends with ' ' and has no two ' ' in a row; a result of camel *)
(* or pascal has none of the three.                                        *)
(***************************************************************************)
C3_NoForeignDelimiter ==
    Called =>
        /\ fn \in SnakeFamily => ~Occurs("-", r) /\ ~Occurs(" ", r)
        /\ fn \in KebabFamily => ~Occurs("_", r) /\ ~Occurs(" ", r)
        /\ fn \in SpaceFamily =>
              /\ ~Occurs("_", r) /\ ~Occurs("-", r)
              /\ r # <<>> => r[1] # " " /\ r[Len(r)] # " "
              /\ \A i \in 1..(Len(r) - 1) : ~(r[i] = " " /\ r[i + 1] = " ")
        /\ fn \in {"camel", "pascal"} =>
              ~Occurs("-", r) /\ ~Occurs("_", r) /\ ~Occurs(" ", r)

C3_Witness ==
    /\ fn = "snake"
    /\ s # <<>>
    /\ s[1] = "-"
    /\ Occurs(" ", s)
    /\ Len(ScannerWords(s)) >= 2
    /\ Occurs("_", r)

(***************************************************************************)
(* C4: acronym boundary.  Where two or more uppercase letters in a row are *)
(* followed by a lowercase letter, the scanner splits before the last      *)
(* uppercase letter: the earlier uppercase letters of the run end one      *)
(* word, and the last one starts the next word, which holds the lowercase  *)
(* letters that follow.                                                    *)
(***************************************************************************)
\* q is the 0-based offset of the last letter of such a run in x
AcronymEnd(x, q) ==
    /\ q >= 1
    /\ q + 2 <= Len(x)
    /\ x[q] \in UpperSet
    /\ x[q + 1] \in UpperSet
    /\ x[q + 2] \in LowerSet

\* offset of the first letter of the uppercase run that ends at offset q
RunStart(x, q) ==
    CHOOSE p \in 0..q :
        /\ \A j \in p..q : x[j + 1] \in UpperSet
        /\ p = 0 \/ x[p] \notin UpperSet

\* offset after the last of the lowercase letters that follow offset q
LowerRunEnd(x, q) ==
    CHOOSE e \in (q + 1)..Len(x) :
        /\ \A j \in (q + 1)..(e - 1) : x[j + 1] \in LowerSet
        /\ e = Len(x) \/ x[e + 1] \notin LowerSet

C4_AcronymBoundary ==
    Called =>
        LET spans == ScannerSpans(s, 0) IN
        /\ \A q \in 0..Len(s) :
              AcronymEnd(s, q) =>
                  \E k \in 1..(Len(spans) - 1) :
                      /\ spans[k].to = q
                      /\ spans[k].from <= RunStart(s, q - 1)
                      /\ spans[k + 1].from = q
                      /\ spans[k + 1].to >= LowerRunEnd(s, q)
        /\ s = ExAcronyms =>
              ScannerWords(s) = <<<<"x">>, <<"C", "a", "m", "e", "l">>, <<"X", "X">>,
                                  <<"S", "n", "a", "k", "e">>, <<"X", "X", "X">>,
                                  <<"K", "e", "b", "a", "b">>>>
        /\ s = ExLeadingCaps =>
              ScannerWords(s) = <<<<"C", "A", "M", "E", "L">>,
                                  <<"S", "n", "a", "k", "e">>,
                                  <<"K", "e", "b", "a", "b">>>>

C4_Witness ==
    /\ fn = "title"
    /\ Len(s) <= MaxLen
    /\ \E q \in 2..Len(s) : AcronymEnd(s, q)
    /\ Len(ScannerWords(s)) >= 2

(***************************************************************************)
(* C5: idempotence of the snake and kebab families.  As claimed, for every *)
(* input over letters, case-less characters and the delimiters, inputs     *)
(* without a word included, f(f(x)) = f(x).  The second call is the step   *)
(* that converts the result of the first.                                  *)
(***************************************************************************)
SameAgain == Called /\ calls' = calls + 1 /\ fn' = fn

C5_Original ==
    [][(SameAgain /\ fn \in WrapFamily) => r' = r]_vars

NoCaseless(x) == \A i \in 1..Len(x) : x[i] \in (UpperSet \cup LowerSet) \cup Delimiters

\* C5 as amended: f(f(x)) = f(x) for every input x that contains at least one
\* word and, for screaming_snake and screaming_kebab, no case-less character.
C5_WrapIdempotent ==
    [][(/\ SameAgain
        /\ fn \in WrapFamily
        /\ HasWord(s)
        /\ fn \in {"screaming_snake", "screaming_kebab"} => NoCaseless(s))
       => r' = r]_vars

C5_Witness ==
    /\ calls = 2
    /\ fn = "camel_snake"
    /\ s = camel_snake(ExMixed)
    /\ r = s
    /\ LeadingRun(r, "_") = 2

(***************************************************************************)
(* C6: idempotence of camel, pascal, lower, title and screaming.  As       *)
(* claimed, f(f(x)) = f(x) for every input, inputs with one letter words   *)
(* and words with case-less characters included.                           *)
(***************************************************************************)
C6_Original ==
    [][(SameAgain /\ fn \in {"camel", "pascal"} \cup SpaceFamily) => r' = r]_vars

EveryWordLong(x) == \A k \in 1..Len(ScannerWords(x)) : Len(ScannerWords(x)[k]) >= 2

\* C6 as amended: f(f(x)) = f(x) for lower and title on every input, for
\* screaming on every input without a case-less character, and for camel and
\* pascal on every input whose words all have at least two characters.
C6_PlainIdempotent ==
    [][(/\ SameAgain
        /\ fn \in {"camel", "pascal"} \cup SpaceFamily
        /\ fn = "screaming" => NoCaseless(s)
        /\ fn \in {"camel", "pascal"} => EveryWordLong(s))
       => r' = r]_vars

C6_Witness ==
    /\ calls = 2
    /\ fn = "pascal"
    /\ s = pascal(ExMixed)
    /\ r = s
    /\ Len(r) = 15

(***************************************************************************)
(* C7: for the empty input and for an input of spaces only, of any length, *)
(* each of the eleven functions returns the empty string, and does not     *)
(* fail.                                                                   *)
(***************************************************************************)
OnlySpaces(x) == \A i \in 1..Len(x) : x[i] = " "

C7_EmptyForSpaces ==
    (Called /\ OnlySpaces(s)) => r = <<>>

C7_Witness ==
    /\ fn = "screaming_kebab"
    /\ s = ExSpaces
    /\ r = <<>>

(***************************************************************************)
(* C8: kebab -> snake -> kebab.  As claimed, kebab(snake(kebab(x))) =      *)
(* kebab(x) for every input x, inputs with leading or trailing hyphens     *)
(* included.                                                               *)
(***************************************************************************)
C8_Original ==
    (Called /\ fn = "kebab") => kebab(snake(r)) = r

Stripped(x, c) ==
    IF LeadingRun(x, c) = Len(x)
    THEN <<>>
    ELSE SubSeq(x, LeadingRun(x, c) + 1, Len(x) - TrailingRun(x, c))

\* C8 as amended: kebab(snake(kebab(x))) is kebab(x) without its leading and
\* trailing hyphens, so it equals kebab(x) for every input x that neither
\* begins nor ends with a hyphen.
C8_KebabSnakeKebab ==
    (Called /\ fn = "kebab") =>
        /\ kebab(snake(r)) = Stripped(r, "-")
        /\ (s = <<>> \/ (s[1] # "-" /\ s[Len(s)] # "-")) => kebab(snake(r)) = r

C8_Witness ==
    /\ fn = "kebab"
    /\ s = ExWrappedKebab
    /\ r = s
    /\ kebab(snake(r)) = Stripped(s, "-")

(***************************************************************************)
(* C9: kebab on a string whose words are separated by underscores.  As     *)
(* claimed, kebab splits it on letter-case changes only: an underscore is  *)
(* no word boundary, so it stays inside a word and in the result.          *)
(***************************************************************************)
UnderscoreSeparated(x) ==
    /\ Occurs("_", x)
    /\ ~Occurs("-", x) /\ ~Occurs(" ", x)
    /\ x[1] # "_" /\ x[Len(x)] # "_"
    /\ \A i \in 1..(Len(x) - 1) : ~(x[i] = "_" /\ x[i + 1] = "_")

Count(c, x) == Cardinality({i \in 1..Len(x) : x[i] = c})

C9_Original ==
    (Called /\ fn = "kebab" /\ UnderscoreSeparated(s)) =>
        LET spans == ScannerSpans(s, 0) IN
        /\ \A i \in 1..Len(s) :
              s[i] = "_" =>
                  \E k \in 1..Len(spans) : spans[k].from < i - 1 /\ i - 1 < spans[k].to
        /\ Count("_", r) = Count("_", s)

\* C9 as amended: kebab splits such a string on every underscore as well as on
\* letter-case changes: a word ends at each underscore and the next one starts
\* after it, no underscore is in the result, and a lowercase input comes back
\* with each underscore replaced by a hyphen.
C9_KebabSplitsOnUnderscore ==
    (Called /\ fn = "kebab" /\ UnderscoreSeparated(s)) =>
        LET spans == ScannerSpans(s, 0) IN
        /\ \A i \in 1..Len(s) :
              s[i] = "_" =>
                  \E k \in 1..(Len(spans) - 1) :
                      spans[k].to = i - 1 /\ spans[k + 1].from = i
        /\ ~Occurs("_", r)
        /\ (\A i \in 1..Len(s) : s[i] \in LowerSet \cup {"_"}) =>
              r = [i \in 1..Len(s) |-> IF s[i] = "_" THEN "-" ELSE s[i]]

C9_Witness ==
    /\ fn = "kebab"
    /\ s = ExSnake
    /\ Count("-", r) = 2
    /\ Len(r) = Len(s)

(***************************************************************************)
(* C10: command line dispatch.  For each of the eleven dialect names the   *)
(* help text lists, the program selects the corresponding function and     *)
(* prints one result line per phrase, in input order; the "Invalid         *)
(* dialect" error is reached only for a name that is not in that list.     *)
(***************************************************************************)
\* the function a listed name stands for: the name with '-' written '_'
FunctionOf(dialect) ==
    CASE dialect = "camel-snake" -> "camel_snake"
      [] dialect = "screaming-snake" -> "screaming_snake"
      [] dialect = "camel-kebab" -> "camel_kebab"
      [] dialect = "screaming-kebab" -> "screaming_kebab"
      [] OTHER -> dialect

GivenPhrases == IF args.phrases # <<>> THEN args.phrases ELSE stdin

C10_Dispatch ==
    /\ error = "Invalid dialect" => args.dialect \notin HelpDialects
    /\ (args.present /\ args.dialect \in HelpDialects /\ pc \in {"phrases", "print", "exit"}) =>
          /\ func = FunctionOf(args.dialect)
          /\ Len(stdout) <= Len(GivenPhrases)
          /\ \A i \in 1..Len(stdout) : stdout[i] = call(func, GivenPhrases[i])
          /\ (pc = "exit" /\ error = "none") => Len(stdout) = Len(GivenPhrases)

(***************************************************************************)
(* C11: the gate prev_upper_location > 0.  As claimed, an uppercase run    *)
(* that begins at offset 0 of the input never triggers the acronym split,  *)
(* so an all-caps word at the very start followed by a lowercase letter is *)
(* split differently from the same run in the middle of a phrase.          *)
(***************************************************************************)
\* x begins with two or more uppercase letters and then a lowercase letter;
\* LeadingCaps(x) is the number of those uppercase letters
LeadingCaps(x) ==
    CHOOSE n \in 0..Len(x) :
        /\ \A i \in 1..n : x[i] \in UpperSet
        /\ n = Len(x) \/ x[n + 1] \notin UpperSet

LeadingAcronym(x) ==
    /\ LeadingCaps(x) >= 2
    /\ LeadingCaps(x) < Len(x)
    /\ x[LeadingCaps(x) + 1] \in LowerSet

C11_Original ==
    (Called /\ LeadingAcronym(s)) =>
        /\ \A k \in 1..Len(ScannerSpans(s, 0)) :
              ScannerSpans(s, 0)[k].to # LeadingCaps(s) - 1
        /\ ScannerWords(s) # ScannerWords(<<"_">> \o s)

\* C11 as amended: prev_upper_location is the offset of the last uppercase
\* letter seen, so the gate stops the rule only for a single uppercase letter
\* at offset 0, where no word would end anyway.  A run of two or more uppercase
\* letters that begins at offset 0 and is followed by a lowercase letter is
\* split before its last letter, into the same words as the same run in the
\* middle of a phrase.
C11_LeadingRunSplits ==
    /\ (Called /\ LeadingAcronym(s)) =>
          LET spans == ScannerSpans(s, 0) IN
          /\ Len(spans) >= 2
          /\ spans[1] = [from |-> 0, to |-> LeadingCaps(s) - 1]
          /\ spans[2].from = LeadingCaps(s) - 1
          /\ ScannerWords(s) = ScannerWords(<<"_">> \o s)
          /\ ScannerWords(<<"a">> \o s) = <<<<"a">>>> \o ScannerWords(s)
    /\ (Called /\ LeadingCaps(s) = 1 /\ Len(s) >= 2 /\ s[2] \in LowerSet) =>
          /\ ScannerSpans(s, 0)[1].from = 0
          /\ ScannerSpans(s, 0)[1].to >= 2
          /\ ScannerWords(s) = ScannerWords(<<"_">> \o s)
    /\ (Called /\ s = ExLeadingCaps /\ fn = "camel") =>
          r = <<"c", "a", "m", "e", "l", "S", "n", "a", "k", "e", "K", "e", "b", "a", "b">>

C11_Witness ==
    /\ fn = "camel"
    /\ s = ExLeadingCaps
    /\ LeadingAcronym(s)
    /\ Len(ScannerWords(s)) = 3
    /\ Len(r) = 15

(***************************************************************************)
(* C12: head_tail_count(x, d) is (0, 0) when x is empty or made of d only, *)
(* and otherwise (length of the leading run of d, length of the trailing   *)
(* run of d); so a snake family function on a string of '_' only, and a    *)
(* kebab family function on a string of '-' only, returns the empty        *)
(* string, not the run.                                                    *)
(***************************************************************************)
OnlyChar(x, d) == \A i \in 1..Len(x) : x[i] = d

C12_HeadTailCount ==
    Called =>
        /\ \A d \in {"_", "-"} :
              head_tail_count(s, d) =
                  IF OnlyChar(s, d)
                  THEN [head |-> 0, tail |-> 0]
                  ELSE [head |-> LeadingRun(s, d), tail |-> TrailingRun(s, d)]
        /\ (fn \in WrapFamily /\ OnlyChar(s, SeparatorOf(fn))) => r = <<>>

C12_Witness ==
    /\ fn = "screaming_kebab"
    /\ s = <<"-", "-", "-">>
    /\ head_tail_count(s, "-") = [head |-> 0, tail |-> 0]
    /\ r = <<>>

(***************************************************************************)
(* The word scanner as spec.md section 4.1 describes it: one pass from     *)
(* left to right that keeps start, prev_lower, prev_upper and              *)
(* prev_upper_location, all absolute offsets, across the words it emits.   *)
(***************************************************************************)
\* the span [from, to) of x as an emitted word; nothing is emitted when from = to
emit(x, from, to) == IF from # to THEN <<SubSeq(x, from + 1, to)>> ELSE <<>>

RECURSIVE scan_pass(_, _, _, _, _, _)
scan_pass(x, i, start, prev_lower, prev_upper, prev_upper_location) ==
    IF i >= Len(x)
    THEN IF start < Len(x) THEN <<SubSeq(x, start + 1, Len(x))>> ELSE <<>>
    ELSE LET c == x[i + 1] IN
         IF c \in Delimiters
         THEN emit(x, start, i) \o scan_pass(x, i + 1, i + 1, FALSE, FALSE, 0)
         ELSE IF c \in UpperSet
         THEN IF prev_lower
              THEN emit(x, start, i) \o scan_pass(x, i + 1, i, FALSE, TRUE, i)
              ELSE scan_pass(x, i + 1, start, prev_lower, TRUE, i)
         ELSE IF prev_upper /\ prev_upper_location > 0
              THEN emit(x, start, prev_upper_location)
                   \o scan_pass(x, i + 1, prev_upper_location, TRUE, FALSE, 0)
              ELSE scan_pass(x, i + 1, start, TRUE, prev_upper, prev_upper_location)

scan(x) == scan_pass(x, 0, 0, FALSE, FALSE, 0)

(***************************************************************************)
(* C13: scanner equivalence.  For every input, the words the code finds,   *)
(* by calling first_word and calling it afresh on each remainder until the *)
(* word is empty, are word for word and in order the words the single pass *)
(* emits; each word is non-empty and holds no delimiter.                   *)
(***************************************************************************)
C13_ScannerEquivalence ==
    Called =>
        /\ ScannerWords(s) = scan(s)
        /\ \A k \in 1..Len(ScannerWords(s)) :
              /\ ScannerWords(s)[k] # <<>>
              /\ \A i \in 1..Len(ScannerWords(s)[k]) :
                    ScannerWords(s)[k][i] \notin Delimiters

C13_Witness ==
    /\ fn = "lower"
    /\ s = ExMixed
    /\ Len(scan(s)) = 3
    /\ scan(s)[3] = <<"K", "E", "B", "A", "B">>
    /\ ScannerWords(s) = scan(s)

====
